---- MODULE Spec2Model ----
(***************************************************************************)
(* Inventory service of the backend boilerplate: the ledger                *)
(* (InventoryModel), the reservations (ReservationModel), the HTTP routes   *)
(* /reserve, /release/:reservationId and PATCH /:id, the order.created and  *)
(* order.updated consumers and the expiry sweeper.                          *)
(*                                                                         *)
(* Every handler is an async function: each awaited store or bus call is    *)
(* one atomic step, and the steps of different handler invocations          *)
(* interleave.  A handler invocation is a process p with a program counter  *)
(* and the locals the code keeps between awaits (the documents it read).    *)
(***************************************************************************)
EXTENDS Integers, Sequences, FiniteSets, Bags, TLC

\* ------------------------------------------------------------------ bounds
NumProcs == 2        \* handler invocations that may be in flight together
NumProducts == 1     \* ledger entries
NumOrders == 1       \* order ids
MaxRes == 2          \* reservation documents ever created
MaxOps == 3          \* handler invocations in one behaviour
MaxQty == 2          \* largest requested quantity
MaxTotal == 2        \* largest total an admin PATCH sets
MaxTime == 2         \* clock ticks
MaxTtl == 1          \* largest expiresIn, in clock ticks
InitStock == 2       \* stock every ledger entry is created with
MaxPublish == 3      \* calls of RabbitEventBus.publish in one behaviour

NumUsers == 2        \* authenticated users that open streams
MaxConns == 2        \* gateway streams opened in a behaviour
MaxEvents == 2       \* events the gateway's broadcast handler is invoked for
MaxClock == 3        \* heartbeat ticks in a behaviour
MaxOsConns == 3      \* order-service streams opened in a behaviour
MaxSockets == 2      \* sockets connected to the gateway in a behaviour
NumItemProducts == 2 \* products an inventory item can be created for
NumAdmins == 2       \* admin create requests in a behaviour
MaxCreates == 2      \* deliveries of product.created in a behaviour
NumCallers == 3      \* calls of getEventBus in a process
StaleThreshold == 2  \* staleThreshold (60000 ms) in heartbeat intervals (30000 ms)

Procs == 1..NumProcs
Qtys == 1..MaxQty
Ttls == 1..MaxTtl
Totals == 0..MaxTotal

VARIABLES
  ledger,    \* productId -> InventoryDocument {available, reserved, total}
  res,       \* reservation documents, in creation order; the index is the id
             \* (history fields: pre, post: the ledger entry its /reserve read
             \* and the entry as its /reserve left it)
  now,       \* the clock (Date.now())
  proc,      \* handler invocation -> its position and locals
  events,    \* bag of the events handed to the exchange
  credited,  \* history: reservation id -> number of ledger credits made for it
  started,   \* history: handler invocations started so far
  orders,    \* environment: the order ids the order service has issued
  limit,     \* environment: handler invocations this behaviour may start
  channel,   \* RabbitEventBus.channel is set (connect has completed)
  bound,     \* the queues asserted, bound to the exchange and consumed
  calls,     \* history: the calls of publish, with what they met and how they ended
  msgs,      \* the messages the exchange was handed, in order; the index is the id
  queue,     \* queue -> ids of the messages waiting in it
  inflight,  \* queue -> ids of the messages whose consume callback is running
  delivered, \* history: queue -> id -> times the callback was invoked for it
  acked,     \* history: queue -> id -> times channel.ack was called for it
  nacked,    \* history: queue -> id -> times channel.nack was called for it
  outcome,   \* history: queue -> id -> how the handler ended ("none" while it has not)
  conns,     \* gateway stream -> its state and whether its peer has gone
  registry,  \* SSEManager.clients: client id -> SSEClient record
  writes,    \* history: stream -> times the last event handled was written to it
  pings,     \* history: the streams the last heartbeat wrote a ping to
  sseClock,  \* heartbeat intervals elapsed since the gateway started
  handled,   \* history: the last event the broadcast handler was invoked for, its
             \* number, the streams a write of it to which threw, how the handler ended
  failed,    \* history: the streams a write to which threw
  osConns,   \* order-service stream -> its state and the user it was opened for
  osConsumers, \* the order-service streams whose bus consumer is running
  osLate,    \* history: the streams written to after they had closed
  sockets,   \* gateway socket -> its state, its user and the event rooms it joined
  wsEmits,   \* history: socket -> times the last event handled was emitted to it
  wsHandled, \* history: the last event the socket broadcast handler was invoked for
  items,     \* the inventory collection: the documents in insertion order
  creator,   \* admin create request -> its position and its body
  pcMsgs,    \* history: deliveries of product.created handled so far
  instance,  \* eventBusInstance is set (not null)
  getter,    \* call of getEventBus -> where it is, or what it returned
  cancelMsg  \* the order.updated message in the queue inventory.order.updated:
             \* where it is, how often it was delivered, acked and nacked, and the
             \* reservation at which the handler caught an error (0: none)

busVars ==
  <<channel, bound, calls, msgs, queue, inflight, delivered, acked, nacked, outcome>>

invVars == <<ledger, res, now, proc, events, credited, started, orders, limit>>

fanVars ==
  <<conns, registry, writes, pings, sseClock, handled, failed,
    osConns, osConsumers, osLate>>

itemVars == <<items, creator, pcMsgs>>

getVars == <<instance, getter>>

svcVars == <<itemVars, getVars, cancelMsg>>

wsVars == <<sockets, wsEmits, wsHandled>>

vars == <<invVars, busVars, fanVars, svcVars, wsVars>>

Products == DOMAIN ledger

\* ------------------------------------------------------------------ values
NoInv == [available |-> 0, reserved |-> 0, total |-> 0]
NoResp == [code |-> 0, available |-> 0, requested |-> 0]

Idle ==
  [op |-> "idle", pc |-> "idle", productId |-> 0, quantity |-> 0, orderId |-> 0,
   ttl |-> 0, rid |-> 0, inv |-> NoInv, list |-> <<>>, idx |-> 0, total |-> 0,
   resp |-> NoResp]

Ids == 1..Len(res)

\* The ascending sequence of the elements of a finite set of numbers.
RECURSIVE SortedSeq(_)
SortedSeq(S) ==
  IF S = {} THEN <<>>
  ELSE LET m == CHOOSE x \in S : \A y \in S : x <= y
       IN <<m>> \o SortedSeq(S \ {m})

\* A handler that has returned or thrown: its locals are gone; the request it
\* served (operation, product, quantity, reservation) and its reply stay until
\* the caller collects them.
Done(me, resp) ==
  [Idle EXCEPT !.op = me.op, !.pc = "done", !.rid = me.rid,
               !.productId = me.productId, !.quantity = me.quantity, !.resp = resp]

Finish(p, code) ==
  [proc EXCEPT ![p] = Done(proc[p], [NoResp EXCEPT !.code = code])]

Event(type, r) ==
  [type |-> type, reservationId |-> r, orderId |-> res[r].orderId,
   productId |-> res[r].productId, quantity |-> res[r].quantity]

\* The number of reservations an in-flight /reserve is about to create.
Creating == Cardinality({p \in Procs : proc[p].pc = "rsv_create"})

\* A new invocation takes the first free slot, while the behaviour's budget of
\* invocations lasts.
CanStart(p) ==
  /\ proc[p].pc = "idle"
  /\ started < limit
  /\ \A q \in Procs : q < p => proc[q].pc # "idle"

\* --------------------------------------------------------------- event bus
\* A routing key or a binding pattern is its sequence of dot-separated words.
OrderCreated == <<"order", "created">>
InventoryReserved == <<"inventory", "reserved">>
Star == <<"*">>

\* The routing keys the services publish under.
Topics == {OrderCreated, InventoryReserved}

\* The named queues of the subscriptions, and the pattern each is bound with.
Subs ==
  {"inventory.order.created", "notifications.order.created",
   "gateway.sse.broadcast", "gateway.websocket.broadcast"}

Broadcasters == {"gateway.sse.broadcast", "gateway.websocket.broadcast"}

Pattern(s) == IF s \in Broadcasters THEN Star ELSE OrderCreated

MsgIds == 1..MaxPublish

\* The topic exchange's test of a routing key against a binding pattern: * stands
\* for exactly one word, # for any number of words.
RECURSIVE Match(_, _)
Match(pattern, key) ==
  IF pattern = <<>> THEN key = <<>>
  ELSE IF Head(pattern) = "#"
  THEN Match(Tail(pattern), key) \/ (key # <<>> /\ Match(pattern, Tail(key)))
  ELSE /\ key # <<>>
       /\ Head(pattern) \in {"*", Head(key)}
       /\ Match(Tail(pattern), Tail(key))

\* The bus after construction: no channel, nothing subscribed, nothing sent.
BusInit ==
  /\ channel = FALSE
  /\ bound = {}
  /\ calls = <<>>
  /\ msgs = <<>>
  /\ queue = [s \in Subs |-> <<>>]
  /\ inflight = [s \in Subs |-> {}]
  /\ delivered = [s \in Subs |-> [m \in MsgIds |-> 0]]
  /\ acked = [s \in Subs |-> [m \in MsgIds |-> 0]]
  /\ nacked = [s \in Subs |-> [m \in MsgIds |-> 0]]
  /\ outcome = [s \in Subs |-> [m \in MsgIds |-> "none"]]

\* ------------------------------------------------------------ gateway streams
Users == 1..NumUsers
ClientIds == 1..MaxConns
OsIds == 1..MaxOsConns
NotificationCreated == <<"notification", "created">>

\* The events the broadcast handler receives: the type and the userId of the
\* payload (0: the payload has none).
FanEvents ==
  {[type |-> t, userId |-> u] : t \in {OrderCreated, NotificationCreated}, u \in Users}
    \cup {[type |-> InventoryReserved, userId |-> 0]}

\* The subscription set each route gives its client.
RouteSubs(route, u) ==
  IF route = "notifications"
  THEN {<<"notification", "*">>, <<"user", ToString(u), "*">>}
  ELSE {<<"order", "*">>}

NoConn == [state |-> "none", broken |-> FALSE]

\* The empty Map.
NoClients == [c \in {} |-> 0]

NoOsConn == [state |-> "none", userId |-> 0]

NoEvent == [n |-> 0, type |-> <<>>, userId |-> 0, threw |-> {}, result |-> "none"]

FanInit ==
  /\ conns = [c \in ClientIds |-> NoConn]
  /\ registry = NoClients
  /\ writes = [c \in ClientIds |-> 0]
  /\ pings = {}
  /\ sseClock = 0
  /\ handled = NoEvent
  /\ failed = {}
  /\ osConns = [c \in OsIds |-> NoOsConn]
  /\ osConsumers = {}
  /\ osLate = {}

\* ------------------------------------------------- inventory service start
NoMsg == [state |-> "none", delivered |-> 0, acked |-> 0, nacked |-> 0, caught |-> 0]

Callers == 1..NumCallers

Admins == 1..NumAdmins
ItemProducts == 1..NumItemProducts

NoCreate == [pc |-> "idle", productId |-> 0, total |-> 0, code |-> 0]

SocketIds == 1..MaxSockets

NoSocket == [state |-> "none", userId |-> 0, events |-> {}]

WsInit ==
  /\ sockets = [k \in SocketIds |-> NoSocket]
  /\ wsEmits = [k \in SocketIds |-> 0]
  /\ wsHandled = [n |-> 0, type |-> <<>>, userId |-> 0]

SvcInit ==
  /\ items = <<>>
  /\ creator = [a \in Admins |-> NoCreate]
  /\ pcMsgs = 0
  /\ instance = FALSE
  /\ getter = [c \in Callers |-> "idle"]
  /\ cancelMsg = NoMsg

\* ------------------------------------------------------------------ Init
\* The service after start-up: every product has the ledger entry its creation
\* wrote (available = total, reserved = 0), no reservation, nothing in flight.
InvInitWith(products, orderIds, invocations) ==
  /\ ledger = [r \in products |->
                 [available |-> InitStock, reserved |-> 0, total |-> InitStock]]
  /\ res = <<>>
  /\ now = 0
  /\ proc = [p \in Procs |-> Idle]
  /\ events = EmptyBag
  /\ credited = <<>>
  /\ orders = orderIds
  /\ started = 0
  /\ limit = invocations

InitWith(products, orderIds, invocations) ==
  /\ InvInitWith(products, orderIds, invocations)
  /\ BusInit
  /\ FanInit
  /\ SvcInit
  /\ WsInit

Init == InitWith(1..NumProducts, 1..NumOrders, MaxOps)

\* ------------------------------------------------------------ POST /reserve
\* Mutant of ReserveRead: the stock check reads total instead of available.
ReserveReadChecksTotal(p) ==
  /\ CanStart(p)
  /\ Len(res) + Creating < MaxRes
  /\ \E r \in Products, q \in Qtys, o \in orders, t \in Ttls :
       LET inv == ledger[r]
           me == [Idle EXCEPT !.op = "reserve", !.productId = r, !.quantity = q,
                              !.orderId = o, !.ttl = t, !.inv = inv]
       IN IF inv.total < q
          THEN proc' = [proc EXCEPT ![p] =
                  Done(me, [code |-> 400, available |-> inv.available,
                            requested |-> q])]
          ELSE proc' = [proc EXCEPT ![p] = [me EXCEPT !.pc = "rsv_create"]]
  /\ started' = started + 1
  /\ UNCHANGED <<ledger, res, now, events, credited, orders, limit>>
  /\ UNCHANGED busVars
  /\ UNCHANGED fanVars
  /\ UNCHANGED svcVars
  /\ UNCHANGED wsVars

\* findByProductId and the stock check on the document read.
ReserveRead(p) ==
  /\ CanStart(p)
  /\ Len(res) + Creating < MaxRes
  /\ \E r \in Products, q \in Qtys, o \in orders, t \in Ttls :
       LET inv == ledger[r]
           me == [Idle EXCEPT !.op = "reserve", !.productId = r, !.quantity = q,
                              !.orderId = o, !.ttl = t, !.inv = inv]
       IN IF inv.available < q
          THEN proc' = [proc EXCEPT ![p] =
                  Done(me, [code |-> 400, available |-> inv.available,
                            requested |-> q])]
          ELSE proc' = [proc EXCEPT ![p] = [me EXCEPT !.pc = "rsv_create"]]
  /\ started' = started + 1
  /\ UNCHANGED <<ledger, res, now, events, credited, orders, limit>>
  /\ UNCHANGED busVars
  /\ UNCHANGED fanVars
  /\ UNCHANGED svcVars
  /\ UNCHANGED wsVars

\* reservationRepository.create: a pending document expiring at now + expiresIn.
ReserveCreate(p) ==
  /\ proc[p].pc = "rsv_create"
  /\ res' = Append(res, [orderId |-> proc[p].orderId,
                         productId |-> proc[p].productId,
                         quantity |-> proc[p].quantity,
                         status |-> "pending",
                         expiresAt |-> now + proc[p].ttl,
                         exists |-> TRUE,
                         pre |-> proc[p].inv,
                         post |-> NoInv])
  /\ credited' = Append(credited, 0)
  /\ proc' = [proc EXCEPT ![p].pc = "rsv_update", ![p].rid = Len(res) + 1]
  /\ UNCHANGED <<ledger, now, events, started, orders, limit>>
  /\ UNCHANGED busVars
  /\ UNCHANGED fanVars
  /\ UNCHANGED svcVars
  /\ UNCHANGED wsVars

\* Mutant of ReserveUpdate: the update forgets to raise reserved.
ReserveUpdateForgetsReserved(p) ==
  /\ proc[p].pc = "rsv_update"
  /\ ledger' = [ledger EXCEPT ![proc[p].productId] =
                  [@ EXCEPT !.available = proc[p].inv.available - proc[p].quantity]]
  /\ res' = [res EXCEPT ![proc[p].rid].post = ledger'[proc[p].productId]]
  /\ proc' = [proc EXCEPT ![p].pc = "rsv_publish"]
  /\ UNCHANGED <<now, events, credited, started, orders, limit>>
  /\ UNCHANGED busVars
  /\ UNCHANGED fanVars
  /\ UNCHANGED svcVars
  /\ UNCHANGED wsVars

\* inventoryRepository.updateById with the figures computed from the document read.
ReserveUpdate(p) ==
  /\ proc[p].pc = "rsv_update"
  /\ ledger' = [ledger EXCEPT ![proc[p].productId] =
                  [@ EXCEPT !.available = proc[p].inv.available - proc[p].quantity,
                            !.reserved = proc[p].inv.reserved + proc[p].quantity]]
  /\ res' = [res EXCEPT ![proc[p].rid].post = ledger'[proc[p].productId]]
  /\ proc' = [proc EXCEPT ![p].pc = "rsv_publish"]
  /\ UNCHANGED <<now, events, credited, started, orders, limit>>
  /\ UNCHANGED busVars
  /\ UNCHANGED fanVars
  /\ UNCHANGED svcVars
  /\ UNCHANGED wsVars

\* eventBus.publish('inventory.reserved'): it throws when the channel rejects.
ReservePublish(p) ==
  /\ proc[p].pc = "rsv_publish"
  /\ \E ok \in BOOLEAN :
       IF ok
       THEN /\ events' = events (+) SetToBag({Event("inventory.reserved", proc[p].rid)})
            /\ proc' = Finish(p, 201)
       ELSE /\ events' = events
            /\ proc' = Finish(p, 500)
  /\ UNCHANGED <<ledger, res, now, credited, started, orders, limit>>
  /\ UNCHANGED busVars
  /\ UNCHANGED fanVars
  /\ UNCHANGED svcVars
  /\ UNCHANGED wsVars

\* ------------------------------------------------ POST /release/:reservationId
\* findById, then the 404 and the status check on the document read.
ReleaseRead(p) ==
  /\ CanStart(p)
  /\ \E x \in Ids :
       LET me == [Idle EXCEPT !.op = "release", !.rid = x,
                              !.productId = res[x].productId,
                              !.quantity = res[x].quantity,
                              !.orderId = res[x].orderId]
       IN IF ~res[x].exists
          THEN proc' = [proc EXCEPT ![p] = Done(me, [NoResp EXCEPT !.code = 404])]
          ELSE IF res[x].status # "pending"
          THEN proc' = [proc EXCEPT ![p] = Done(me, [NoResp EXCEPT !.code = 400])]
          ELSE proc' = [proc EXCEPT ![p] = [me EXCEPT !.pc = "rel_status"]]
  /\ started' = started + 1
  /\ UNCHANGED <<ledger, res, now, events, credited, orders, limit>>
  /\ UNCHANGED busVars
  /\ UNCHANGED fanVars
  /\ UNCHANGED svcVars
  /\ UNCHANGED wsVars

\* findByIdAndUpdate(id, {status}): sets the status of the document if it is
\* still stored, whatever its current status.
SetStatus(x, st) ==
  IF res[x].exists THEN [res EXCEPT ![x].status = st] ELSE res

\* reservationRepository.updateById(reservationId, {status: 'released'}).
ReleaseStatus(p) ==
  /\ proc[p].pc = "rel_status"
  /\ res' = SetStatus(proc[p].rid, "released")
  /\ proc' = [proc EXCEPT ![p].pc = "rel_readinv"]
  /\ UNCHANGED <<ledger, now, events, credited, started, orders, limit>>
  /\ UNCHANGED busVars
  /\ UNCHANGED fanVars
  /\ UNCHANGED svcVars
  /\ UNCHANGED wsVars

\* inventoryRepository.findByProductId(reservation.productId).
ReleaseReadInv(p) ==
  /\ proc[p].pc = "rel_readinv"
  /\ proc' = [proc EXCEPT ![p].pc = "rel_update", ![p].inv = ledger[proc[p].productId]]
  /\ UNCHANGED <<ledger, res, now, events, credited, started, orders, limit>>
  /\ UNCHANGED busVars
  /\ UNCHANGED fanVars
  /\ UNCHANGED svcVars
  /\ UNCHANGED wsVars

\* A release that hands the quantity back to available and leaves reserved.
ReleaseUpdateKeepsReserved(p) ==
  /\ proc[p].pc = "rel_update"
  /\ ledger' = [ledger EXCEPT ![proc[p].productId] =
                  [@ EXCEPT !.available = proc[p].inv.available + proc[p].quantity]]
  /\ credited' = [credited EXCEPT ![proc[p].rid] = @ + 1]
  /\ proc' = [proc EXCEPT ![p].pc = "rel_publish"]
  /\ UNCHANGED <<res, now, events, started, orders, limit>>
  /\ UNCHANGED busVars
  /\ UNCHANGED fanVars
  /\ UNCHANGED svcVars
  /\ UNCHANGED wsVars

\* inventoryRepository.updateById with the figures computed from the document read.
ReleaseUpdate(p) ==
  /\ proc[p].pc = "rel_update"
  /\ ledger' = [ledger EXCEPT ![proc[p].productId] =
                  [@ EXCEPT !.available = proc[p].inv.available + proc[p].quantity,
                            !.reserved = proc[p].inv.reserved - proc[p].quantity]]
  /\ credited' = [credited EXCEPT ![proc[p].rid] = @ + 1]
  /\ proc' = [proc EXCEPT ![p].pc = "rel_publish"]
  /\ UNCHANGED <<res, now, events, started, orders, limit>>
  /\ UNCHANGED busVars
  /\ UNCHANGED fanVars
  /\ UNCHANGED svcVars
  /\ UNCHANGED wsVars

\* eventBus.publish('inventory.released'), then 204.
ReleasePublish(p) ==
  /\ proc[p].pc = "rel_publish"
  /\ \E ok \in BOOLEAN :
       IF ok
       THEN /\ events' = events (+) SetToBag({Event("inventory.released", proc[p].rid)})
            /\ proc' = Finish(p, 204)
       ELSE /\ events' = events
            /\ proc' = Finish(p, 500)
  /\ UNCHANGED <<ledger, res, now, credited, started, orders, limit>>
  /\ UNCHANGED busVars
  /\ UNCHANGED fanVars
  /\ UNCHANGED svcVars
  /\ UNCHANGED wsVars

\* ------------------------------------------------------------- PATCH /:id
\* inventoryRepository.findById(id).
PatchRead(p) ==
  /\ CanStart(p)
  /\ \E r \in Products, t \in Totals :
       proc' = [proc EXCEPT ![p] =
                  [Idle EXCEPT !.op = "patch", !.pc = "patch_write", !.productId = r,
                               !.total = t, !.inv = ledger[r]]]
  /\ started' = started + 1
  /\ UNCHANGED <<ledger, res, now, events, credited, orders, limit>>
  /\ UNCHANGED busVars
  /\ UNCHANGED fanVars
  /\ UNCHANGED svcVars
  /\ UNCHANGED wsVars

\* available = existing.available + (total - existing.total); updateById.
PatchWrite(p) ==
  /\ proc[p].pc = "patch_write"
  /\ ledger' = [ledger EXCEPT ![proc[p].productId] =
                  [@ EXCEPT !.total = proc[p].total,
                            !.available = proc[p].inv.available
                                            + (proc[p].total - proc[p].inv.total)]]
  /\ proc' = Finish(p, 200)
  /\ UNCHANGED <<res, now, events, credited, started, orders, limit>>
  /\ UNCHANGED busVars
  /\ UNCHANGED fanVars
  /\ UNCHANGED svcVars
  /\ UNCHANGED wsVars

\* ----------------------------------------------------- order.created consumer
\* The reservations of the order that the handler's loop acts on: those whose
\* status, in the documents findByOrderId returned, passes the loop's test.
OrderReservations(o, statuses) ==
  SortedSeq({x \in Ids : /\ res[x].exists
                         /\ res[x].orderId = o
                         /\ res[x].status \in statuses})

\* The handler's position after its read: in the loop, or finished.
Enter(p, me, list, pc) ==
  proc' = [proc EXCEPT ![p] =
             IF list = <<>>
             THEN Done(me, NoResp)
             ELSE [me EXCEPT !.pc = pc, !.list = list, !.idx = 1]]

\* The loop's position after the body ran for list[idx].
Advance(p, pc) ==
  proc' = [proc EXCEPT ![p] =
             IF proc[p].idx = Len(proc[p].list)
             THEN Done(proc[p], NoResp)
             ELSE [proc[p] EXCEPT !.idx = @ + 1, !.pc = pc]]

Current(p) == proc[p].list[proc[p].idx]

\* An order.created handler whose loop takes every reservation of the order,
\* whatever its status.
OrderCreatedReadAnyStatus(p) ==
  /\ CanStart(p)
  /\ \E o \in orders :
       Enter(p, [Idle EXCEPT !.op = "order.created", !.orderId = o],
             OrderReservations(o, {"pending", "confirmed", "released"}), "oc_confirm")
  /\ started' = started + 1
  /\ UNCHANGED <<ledger, res, now, events, credited, orders, limit>>
  /\ UNCHANGED busVars
  /\ UNCHANGED fanVars
  /\ UNCHANGED svcVars
  /\ UNCHANGED wsVars

\* reservationRepository.findByOrderId(orderId).
OrderCreatedRead(p) ==
  /\ CanStart(p)
  /\ \E o \in orders :
       Enter(p, [Idle EXCEPT !.op = "order.created", !.orderId = o],
             OrderReservations(o, {"pending"}), "oc_confirm")
  /\ started' = started + 1
  /\ UNCHANGED <<ledger, res, now, events, credited, orders, limit>>
  /\ UNCHANGED busVars
  /\ UNCHANGED fanVars
  /\ UNCHANGED svcVars
  /\ UNCHANGED wsVars

\* reservationRepository.confirmReservation(reservation.id).
OrderCreatedConfirm(p) ==
  /\ proc[p].pc = "oc_confirm"
  /\ res' = SetStatus(Current(p), "confirmed")
  /\ Advance(p, "oc_confirm")
  /\ UNCHANGED <<ledger, now, events, credited, started, orders, limit>>
  /\ UNCHANGED busVars
  /\ UNCHANGED fanVars
  /\ UNCHANGED svcVars
  /\ UNCHANGED wsVars

\* ----------------------------------------------------- order.updated consumer
\* findByOrderId when currentStatus is 'cancelled'; nothing otherwise.
OrderUpdatedRead(p) ==
  /\ CanStart(p)
  /\ \E o \in orders, st \in {"cancelled", "shipped"} :
       Enter(p, [Idle EXCEPT !.op = "order.updated", !.orderId = o],
             IF st = "cancelled"
             THEN OrderReservations(o, {"pending", "confirmed"}) ELSE <<>>,
             "ou_release")
  /\ started' = started + 1
  /\ UNCHANGED <<ledger, res, now, events, credited, orders, limit>>
  /\ UNCHANGED busVars
  /\ UNCHANGED fanVars
  /\ UNCHANGED svcVars
  /\ UNCHANGED wsVars

\* reservationRepository.releaseReservation(reservation.id).
OrderUpdatedRelease(p) ==
  /\ proc[p].pc = "ou_release"
  /\ res' = SetStatus(Current(p), "released")
  /\ proc' = [proc EXCEPT ![p].pc = "ou_credit"]
  /\ UNCHANGED <<ledger, now, events, credited, started, orders, limit>>
  /\ UNCHANGED busVars
  /\ UNCHANGED fanVars
  /\ UNCHANGED svcVars
  /\ UNCHANGED wsVars

\* Mutant of Credit: the update has no productId filter and credits every entry.
CreditEveryProduct(x) ==
  /\ ledger' = [r \in Products |->
                  [ledger[r] EXCEPT !.available = @ + res[x].quantity,
                                    !.reserved = @ - res[x].quantity]]
  /\ credited' = [credited EXCEPT ![x] = @ + 1]

\* inventoryRepository.release: $inc available by quantity, reserved by -quantity.
Credit(x) ==
  /\ ledger' = [ledger EXCEPT ![res[x].productId] =
                  [@ EXCEPT !.available = @ + res[x].quantity,
                            !.reserved = @ - res[x].quantity]]
  /\ credited' = [credited EXCEPT ![x] = @ + 1]

\* inventoryRepository.release(reservation.productId, reservation.quantity).
OrderUpdatedCredit(p) ==
  /\ proc[p].pc = "ou_credit"
  /\ Credit(Current(p))
  /\ Advance(p, "ou_release")
  /\ UNCHANGED <<res, now, events, started, orders, limit>>
  /\ UNCHANGED busVars
  /\ UNCHANGED fanVars
  /\ UNCHANGED svcVars
  /\ UNCHANGED wsVars

\* ------------------------------------------------------------ expiry sweeper
\* reservationRepository.findExpired(): pending and expiresAt < now.
SweepRead(p) ==
  /\ CanStart(p)
  /\ Enter(p, [Idle EXCEPT !.op = "sweep"],
           SortedSeq({x \in Ids : /\ res[x].exists
                                  /\ res[x].status = "pending"
                                  /\ res[x].expiresAt < now}),
           "sw_release")
  /\ started' = started + 1
  /\ UNCHANGED <<ledger, res, now, events, credited, orders, limit>>
  /\ UNCHANGED busVars
  /\ UNCHANGED fanVars
  /\ UNCHANGED svcVars
  /\ UNCHANGED wsVars

\* reservationRepository.releaseReservation(reservation.id).
SweepRelease(p) ==
  /\ proc[p].pc = "sw_release"
  /\ res' = SetStatus(Current(p), "released")
  /\ proc' = [proc EXCEPT ![p].pc = "sw_credit"]
  /\ UNCHANGED <<ledger, now, events, credited, started, orders, limit>>
  /\ UNCHANGED busVars
  /\ UNCHANGED fanVars
  /\ UNCHANGED svcVars
  /\ UNCHANGED wsVars

\* inventoryRepository.release(reservation.productId, reservation.quantity).
SweepCredit(p) ==
  /\ proc[p].pc = "sw_credit"
  /\ Credit(Current(p))
  /\ Advance(p, "sw_release")
  /\ UNCHANGED <<res, now, events, started, orders, limit>>
  /\ UNCHANGED busVars
  /\ UNCHANGED fanVars
  /\ UNCHANGED svcVars
  /\ UNCHANGED wsVars

\* ------------------------------------------------- TTL index on expiresAt
\* expireAfterSeconds: 0: the store removes a document once expiresAt has passed.
TtlDelete ==
  /\ \E x \in Ids :
       /\ res[x].exists
       /\ res[x].expiresAt < now
       /\ res' = [res EXCEPT ![x].exists = FALSE]
  /\ UNCHANGED <<ledger, now, proc, events, credited, started, orders, limit>>
  /\ UNCHANGED busVars
  /\ UNCHANGED fanVars
  /\ UNCHANGED svcVars
  /\ UNCHANGED wsVars

\* ------------------------------------------------------------------- common
\* The caller has its response; the invocation is over.
Return(p) ==
  /\ proc[p].pc = "done"
  /\ proc' = [proc EXCEPT ![p] = Idle]
  /\ UNCHANGED <<ledger, res, now, events, credited, started, orders, limit>>
  /\ UNCHANGED busVars
  /\ UNCHANGED fanVars
  /\ UNCHANGED svcVars
  /\ UNCHANGED wsVars

Tick ==
  /\ now < MaxTime
  /\ now' = now + 1
  /\ UNCHANGED <<ledger, res, proc, events, credited, started, orders, limit>>
  /\ UNCHANGED busVars
  /\ UNCHANGED fanVars
  /\ UNCHANGED svcVars
  /\ UNCHANGED wsVars

Next ==
  \/ \E p \in Procs : ReserveRead(p)
  \/ \E p \in Procs : ReserveCreate(p)
  \/ \E p \in Procs : ReserveUpdate(p)
  \/ \E p \in Procs : ReservePublish(p)
  \/ \E p \in Procs : ReleaseRead(p)
  \/ \E p \in Procs : ReleaseStatus(p)
  \/ \E p \in Procs : ReleaseReadInv(p)
  \/ \E p \in Procs : ReleaseUpdate(p)
  \/ \E p \in Procs : ReleasePublish(p)
  \/ \E p \in Procs : PatchRead(p)
  \/ \E p \in Procs : PatchWrite(p)
  \/ \E p \in Procs : OrderCreatedRead(p)
  \/ \E p \in Procs : OrderCreatedConfirm(p)
  \/ \E p \in Procs : OrderUpdatedRead(p)
  \/ \E p \in Procs : OrderUpdatedRelease(p)
  \/ \E p \in Procs : OrderUpdatedCredit(p)
  \/ \E p \in Procs : SweepRead(p)
  \/ \E p \in Procs : SweepRelease(p)
  \/ \E p \in Procs : SweepCredit(p)
  \/ \E p \in Procs : Return(p)
  \/ TtlDelete
  \/ Tick

Spec == Init /\ [][Next]_vars

\* ------------------------------------------------- one invocation at a time
\* No handler invocation is between two of its awaits.
Quiescent == \A p \in Procs : proc[p].pc \in {"idle", "done"}

\* p runs alone: every other invocation has not begun or has finished.
Solo(p) == \A q \in Procs \ {p} : proc[q].pc \in {"idle", "done"}

\* The handlers performed one after another (requests and deliveries that do
\* not overlap); the clock and the TTL monitor run on their own.
NextSeq ==
  \/ \E p \in Procs : Solo(p) /\ ReserveRead(p)
  \/ \E p \in Procs : Solo(p) /\ ReserveCreate(p)
  \/ \E p \in Procs : Solo(p) /\ ReserveUpdate(p)
  \/ \E p \in Procs : Solo(p) /\ ReservePublish(p)
  \/ \E p \in Procs : Solo(p) /\ ReleaseRead(p)
  \/ \E p \in Procs : Solo(p) /\ ReleaseStatus(p)
  \/ \E p \in Procs : Solo(p) /\ ReleaseReadInv(p)
  \/ \E p \in Procs : Solo(p) /\ ReleaseUpdate(p)
  \/ \E p \in Procs : Solo(p) /\ ReleasePublish(p)
  \/ \E p \in Procs : Solo(p) /\ PatchRead(p)
  \/ \E p \in Procs : Solo(p) /\ PatchWrite(p)
  \/ \E p \in Procs : Solo(p) /\ OrderCreatedRead(p)
  \/ \E p \in Procs : Solo(p) /\ OrderCreatedConfirm(p)
  \/ \E p \in Procs : Solo(p) /\ OrderUpdatedRead(p)
  \/ \E p \in Procs : Solo(p) /\ OrderUpdatedRelease(p)
  \/ \E p \in Procs : Solo(p) /\ OrderUpdatedCredit(p)
  \/ \E p \in Procs : Solo(p) /\ SweepRead(p)
  \/ \E p \in Procs : Solo(p) /\ SweepRelease(p)
  \/ \E p \in Procs : Solo(p) /\ SweepCredit(p)
  \/ \E p \in Procs : Solo(p) /\ Return(p)
  \/ TtlDelete
  \/ Tick

SpecSeq == Init /\ [][NextSeq]_vars

\* ------------------------------------------------- concurrent /reserve only
NextReserve ==
  \/ \E p \in Procs : ReserveRead(p)
  \/ \E p \in Procs : ReserveCreate(p)
  \/ \E p \in Procs : ReserveUpdate(p)
  \/ \E p \in Procs : ReservePublish(p)
  \/ \E p \in Procs : Return(p)

SpecReserve == Init /\ [][NextReserve]_vars
\* ------------------------------------- every handler but the admin PATCH
NextNoPatch ==
  \/ \E p \in Procs : ReserveRead(p)
  \/ \E p \in Procs : ReserveCreate(p)
  \/ \E p \in Procs : ReserveUpdate(p)
  \/ \E p \in Procs : ReservePublish(p)
  \/ \E p \in Procs : ReleaseRead(p)
  \/ \E p \in Procs : ReleaseStatus(p)
  \/ \E p \in Procs : ReleaseReadInv(p)
  \/ \E p \in Procs : ReleaseUpdate(p)
  \/ \E p \in Procs : ReleasePublish(p)
  \/ \E p \in Procs : OrderCreatedRead(p)
  \/ \E p \in Procs : OrderCreatedConfirm(p)
  \/ \E p \in Procs : OrderUpdatedRead(p)
  \/ \E p \in Procs : OrderUpdatedRelease(p)
  \/ \E p \in Procs : OrderUpdatedCredit(p)
  \/ \E p \in Procs : SweepRead(p)
  \/ \E p \in Procs : SweepRelease(p)
  \/ \E p \in Procs : SweepCredit(p)
  \/ \E p \in Procs : Return(p)
  \/ TtlDelete
  \/ Tick

SpecNoPatch == Init /\ [][NextNoPatch]_vars

\* ================================================================ event bus
\* connect(): createChannel and assertExchange(exchange, 'topic').
Connect ==
  /\ ~channel
  /\ channel' = TRUE
  /\ UNCHANGED <<bound, calls, msgs, queue, inflight, delivered, acked, nacked, outcome>>
  /\ UNCHANGED invVars
  /\ UNCHANGED fanVars
  /\ UNCHANGED svcVars
  /\ UNCHANGED wsVars

\* subscribe(routingKey, handler, {queue}): throws without a channel; assertQueue,
\* bindQueue(queue, exchange, routingKey), consume(queue, callback, {noAck: false}).
Subscribe(s) ==
  /\ channel
  /\ s \notin bound
  /\ bound' = bound \cup {s}
  /\ UNCHANGED <<channel, calls, msgs, queue, inflight, delivered, acked, nacked, outcome>>
  /\ UNCHANGED invVars
  /\ UNCHANGED fanVars
  /\ UNCHANGED svcVars
  /\ UNCHANGED wsVars

\* The exchange hands a message to every bound queue whose pattern matches its
\* routing key.
Route(m, key) ==
  [s \in Subs |->
     IF s \in bound /\ Match(Pattern(s), key) THEN Append(queue[s], m) ELSE queue[s]]

\* The exchange takes a message under routing key t.
Hand(t) ==
  /\ msgs' = Append(msgs, [type |-> t, id |-> Len(msgs) + 1, subs |-> bound])
  /\ queue' = Route(Len(msgs) + 1, t)

\* A publish that returns normally whatever channel.publish answered.
PublishIgnoresRejection(t) ==
  /\ Len(calls) < MaxPublish
  /\ IF ~channel
     THEN /\ calls' = Append(calls, [routingKey |-> t, channel |-> FALSE,
                                     sent |-> "none", result |-> "threw"])
          /\ UNCHANGED <<msgs, queue>>
     ELSE \E published \in BOOLEAN, taken \in BOOLEAN :
            /\ published => taken
            /\ calls' = Append(calls, [routingKey |-> t, channel |-> TRUE,
                                       sent |-> IF published THEN "true" ELSE "false",
                                       result |-> "returned"])
            /\ IF taken THEN Hand(t) ELSE UNCHANGED <<msgs, queue>>
  /\ UNCHANGED <<channel, bound, inflight, delivered, acked, nacked, outcome>>
  /\ UNCHANGED invVars
  /\ UNCHANGED fanVars
  /\ UNCHANGED svcVars
  /\ UNCHANGED wsVars

\* A publish whose message goes to one matching queue only (competing consumers).
PublishToOneQueue(t) ==
  /\ Len(calls) < MaxPublish
  /\ IF ~channel
     THEN /\ calls' = Append(calls, [routingKey |-> t, channel |-> FALSE,
                                     sent |-> "none", result |-> "threw"])
          /\ UNCHANGED <<msgs, queue>>
     ELSE \E published \in BOOLEAN, taken \in BOOLEAN :
            /\ published => taken
            /\ calls' = Append(calls, [routingKey |-> t, channel |-> TRUE,
                                       sent |-> IF published THEN "true" ELSE "false",
                                       result |-> IF published THEN "returned"
                                                               ELSE "threw"])
            /\ IF taken
               THEN /\ msgs' = Append(msgs, [type |-> t, id |-> Len(msgs) + 1,
                                             subs |-> bound])
                    /\ LET fit == {s \in bound : Match(Pattern(s), t)}
                       IN IF fit = {} THEN queue' = queue
                          ELSE LET s == CHOOSE x \in fit : TRUE
                               IN queue' = [queue EXCEPT
                                              ![s] = Append(@, Len(msgs) + 1)]
               ELSE UNCHANGED <<msgs, queue>>
  /\ UNCHANGED <<channel, bound, inflight, delivered, acked, nacked, outcome>>
  /\ UNCHANGED invVars
  /\ UNCHANGED fanVars
  /\ UNCHANGED svcVars
  /\ UNCHANGED wsVars

\* publish(routingKey, payload): throws without a channel; builds the event with
\* type = routingKey; channel.publish(exchange, routingKey, message); throws when
\* that returns false.  What the channel does with a message it answered false
\* for is the library's business: the exchange may or may not get it.
Publish(t) ==
  /\ Len(calls) < MaxPublish
  /\ IF ~channel
     THEN /\ calls' = Append(calls, [routingKey |-> t, channel |-> FALSE,
                                     sent |-> "none", result |-> "threw"])
          /\ UNCHANGED <<msgs, queue>>
     ELSE \E published \in BOOLEAN, taken \in BOOLEAN :
            /\ published => taken
            /\ calls' = Append(calls, [routingKey |-> t, channel |-> TRUE,
                                       sent |-> IF published THEN "true" ELSE "false",
                                       result |-> IF published THEN "returned"
                                                               ELSE "threw"])
            /\ IF taken THEN Hand(t) ELSE UNCHANGED <<msgs, queue>>
  /\ UNCHANGED <<channel, bound, inflight, delivered, acked, nacked, outcome>>
  /\ UNCHANGED invVars
  /\ UNCHANGED fanVars
  /\ UNCHANGED svcVars
  /\ UNCHANGED wsVars

\* A consumer that gets nothing more once one of its handler invocations failed.
ConsumeStopsAfterFailure(s) ==
  /\ s \in bound
  /\ queue[s] # <<>>
  /\ \A m \in MsgIds : outcome[s][m] # "threw"
  /\ LET m == Head(queue[s])
     IN /\ queue' = [queue EXCEPT ![s] = Tail(@)]
        /\ inflight' = [inflight EXCEPT ![s] = @ \cup {m}]
        /\ delivered' = [delivered EXCEPT ![s][m] = @ + 1]
  /\ UNCHANGED <<channel, bound, calls, msgs, acked, nacked, outcome>>
  /\ UNCHANGED invVars
  /\ UNCHANGED fanVars
  /\ UNCHANGED svcVars
  /\ UNCHANGED wsVars

\* The broker pushes the next message of a queue to its consumer and the
\* callback starts: no prefetch limit is set, so unsettled messages do not hold
\* it back.
Consume(s) ==
  /\ s \in bound
  /\ queue[s] # <<>>
  /\ LET m == Head(queue[s])
     IN /\ queue' = [queue EXCEPT ![s] = Tail(@)]
        /\ inflight' = [inflight EXCEPT ![s] = @ \cup {m}]
        /\ delivered' = [delivered EXCEPT ![s][m] = @ + 1]
  /\ UNCHANGED <<channel, bound, calls, msgs, acked, nacked, outcome>>
  /\ UNCHANGED invVars
  /\ UNCHANGED fanVars
  /\ UNCHANGED svcVars
  /\ UNCHANGED wsVars

\* channel.ack(msg).
Ack(s, m) ==
  /\ acked' = [acked EXCEPT ![s][m] = @ + 1]
  /\ UNCHANGED <<nacked, queue>>

\* channel.nack(msg, false, requeue).
Nack(s, m, requeue) ==
  /\ nacked' = [nacked EXCEPT ![s][m] = @ + 1]
  /\ queue' = IF requeue THEN [queue EXCEPT ![s] = Append(@, m)] ELSE queue
  /\ UNCHANGED acked

\* A callback whose catch block puts the message back in the queue.
SettleRequeues(s) ==
  /\ \E m \in inflight[s], ok \in BOOLEAN :
       /\ inflight' = [inflight EXCEPT ![s] = @ \ {m}]
       /\ outcome' = [outcome EXCEPT ![s][m] = IF ok THEN "returned" ELSE "threw"]
       /\ IF ok THEN Ack(s, m) ELSE Nack(s, m, TRUE)
  /\ UNCHANGED <<channel, bound, calls, msgs, delivered>>
  /\ UNCHANGED invVars
  /\ UNCHANGED fanVars
  /\ UNCHANGED svcVars
  /\ UNCHANGED wsVars

\* The rest of the callback: JSON.parse and await handler(event) end normally
\* and the message is acked, or one of them throws and the catch block nacks it
\* without requeue.
Settle(s) ==
  /\ \E m \in inflight[s], ok \in BOOLEAN :
       /\ inflight' = [inflight EXCEPT ![s] = @ \ {m}]
       /\ outcome' = [outcome EXCEPT ![s][m] = IF ok THEN "returned" ELSE "threw"]
       /\ IF ok THEN Ack(s, m) ELSE Nack(s, m, FALSE)
  /\ UNCHANGED <<channel, bound, calls, msgs, delivered>>
  /\ UNCHANGED invVars
  /\ UNCHANGED fanVars
  /\ UNCHANGED svcVars
  /\ UNCHANGED wsVars

NextBus ==
  \/ Connect
  \/ \E s \in Subs : Subscribe(s)
  \/ \E t \in Topics : Publish(t)
  \/ \E s \in Subs : Consume(s)
  \/ \E s \in Subs : Settle(s)

SpecBus == Init /\ [][NextBus]_vars

\* ------------------------------------------------ the bus with its services up
\* Every service has started: the channel is open and every queue is bound and
\* consumed.
BusStarted ==
  /\ channel = TRUE
  /\ bound = Subs
  /\ calls = <<>>
  /\ msgs = <<>>
  /\ queue = [s \in Subs |-> <<>>]
  /\ inflight = [s \in Subs |-> {}]
  /\ delivered = [s \in Subs |-> [m \in MsgIds |-> 0]]
  /\ acked = [s \in Subs |-> [m \in MsgIds |-> 0]]
  /\ nacked = [s \in Subs |-> [m \in MsgIds |-> 0]]
  /\ outcome = [s \in Subs |-> [m \in MsgIds |-> "none"]]

InitStarted ==
  InvInitWith(1..NumProducts, 1..NumOrders, MaxOps) /\ BusStarted /\ FanInit
    /\ SvcInit /\ WsInit

NextStarted ==
  \/ \E t \in Topics : Publish(t)
  \/ \E s \in Subs : Consume(s)
  \/ \E s \in Subs : Settle(s)

\* The broker keeps pushing: a message waiting in a consumed queue is delivered.
\* Nothing makes a handler end.
SpecBusLive ==
  InitStarted /\ [][NextStarted]_vars /\ \A s \in Subs : WF_vars(Consume(s))

\* ------------------------------------------------ store calls that reject
\* inventoryRepository.updateById rejects in /reserve: the exception leaves the
\* handler, the reply is an error, the reservation written before it stays.
ReserveUpdateFails(p) ==
  /\ proc[p].pc = "rsv_update"
  /\ proc' = Finish(p, 500)
  /\ UNCHANGED <<ledger, res, now, events, credited, started, orders, limit>>
  /\ UNCHANGED busVars
  /\ UNCHANGED fanVars
  /\ UNCHANGED svcVars
  /\ UNCHANGED wsVars

\* inventoryRepository.updateById rejects in /release: the reply is an error,
\* the status written before it stays.
ReleaseUpdateFails(p) ==
  /\ proc[p].pc = "rel_update"
  /\ proc' = Finish(p, 500)
  /\ UNCHANGED <<ledger, res, now, events, credited, started, orders, limit>>
  /\ UNCHANGED busVars
  /\ UNCHANGED fanVars
  /\ UNCHANGED svcVars
  /\ UNCHANGED wsVars

\* inventoryRepository.release rejects in the sweeper: the catch block around
\* the whole loop logs the error and the tick ends.
SweepCreditFails(p) ==
  /\ proc[p].pc = "sw_credit"
  /\ proc' = [proc EXCEPT ![p] = Done(proc[p], NoResp)]
  /\ UNCHANGED <<ledger, res, now, events, credited, started, orders, limit>>
  /\ UNCHANGED busVars
  /\ UNCHANGED fanVars
  /\ UNCHANGED svcVars
  /\ UNCHANGED wsVars

\* channel.publish answers false for the inventory.reserved message (its write
\* buffer is full): the channel has taken the message and sends it, and
\* eventBus.publish throws, so the request answers with an error.
ReservePublishRejected(p) ==
  /\ proc[p].pc = "rsv_publish"
  /\ events' = events (+) SetToBag({Event("inventory.reserved", proc[p].rid)})
  /\ proc' = Finish(p, 500)
  /\ UNCHANGED <<ledger, res, now, credited, started, orders, limit>>
  /\ UNCHANGED busVars
  /\ UNCHANGED fanVars
  /\ UNCHANGED svcVars
  /\ UNCHANGED wsVars

\* The handlers one after another, any of these calls failing.
NextFail ==
  \/ NextSeq
  \/ \E p \in Procs : Solo(p) /\ ReservePublishRejected(p)
  \/ \E p \in Procs : Solo(p) /\ ReserveUpdateFails(p)
  \/ \E p \in Procs : Solo(p) /\ ReleaseUpdateFails(p)
  \/ \E p \in Procs : Solo(p) /\ SweepCreditFails(p)

SpecFail == Init /\ [][NextFail]_vars

\* ------------------------------------------------ the sweeper, tick after tick
\* A tick of the interval timer: as many of them as the behaviour is long.
SweepTick(p) ==
  /\ proc[p].pc = "idle"
  /\ \A q \in Procs : q < p => proc[q].pc # "idle"
  /\ Enter(p, [Idle EXCEPT !.op = "sweep"],
           SortedSeq({x \in Ids : /\ res[x].exists
                                  /\ res[x].status = "pending"
                                  /\ res[x].expiresAt < now}),
           "sw_release")
  /\ UNCHANGED <<ledger, res, now, events, credited, started, orders, limit>>
  /\ UNCHANGED busVars
  /\ UNCHANGED fanVars
  /\ UNCHANGED svcVars
  /\ UNCHANGED wsVars

\* A step of a handler that has begun.
SweepSteps ==
  \/ \E p \in Procs : Solo(p) /\ ReserveCreate(p)
  \/ \E p \in Procs : Solo(p) /\ ReserveUpdate(p)
  \/ \E p \in Procs : Solo(p) /\ ReservePublish(p)
  \/ \E p \in Procs : Solo(p) /\ SweepRelease(p)
  \/ \E p \in Procs : Solo(p) /\ SweepCredit(p)
  \/ \E p \in Procs : Solo(p) /\ SweepCreditFails(p)
  \/ \E p \in Procs : Solo(p) /\ Return(p)

SweepTicks == \E p \in Procs : Solo(p) /\ SweepTick(p)

\* /reserve requests and the sweeper, with the clock.
NextSweep ==
  \/ \E p \in Procs : Solo(p) /\ ReserveRead(p)
  \/ SweepSteps
  \/ SweepTicks
  \/ Tick

\* The timer keeps firing and a handler that has begun runs to its end.
SpecSweepLive ==
  Init /\ [][NextSweep]_vars /\ WF_vars(SweepSteps) /\ WF_vars(SweepTicks)

\* ------------------------------------------------------- gateway SSE manager
\* The stream a new request gets: ids are never reused.
FreshConn(c) ==
  /\ conns[c].state = "none"
  /\ \A d \in ClientIds : d < c => conns[d].state # "none"

\* clients.delete for the ids in S.
Without(reg, S) == [c \in DOMAIN reg \ S |-> reg[c]]

\* GET /sse/notifications and GET /sse/orders/:userId by user u: the client
\* record is built, addClient registers it and writes it the 'connected' message.
SseConnect(u, route) ==
  /\ \E c \in ClientIds :
       /\ FreshConn(c)
       /\ conns' = [conns EXCEPT ![c] = [state |-> "open", broken |-> FALSE]]
       /\ registry' =
            [d \in DOMAIN registry \cup {c} |->
               IF d = c
               THEN [userId |-> u, subscriptions |-> RouteSubs(route, u),
                     lastPing |-> sseClock]
               ELSE registry[d]]
  /\ UNCHANGED <<writes, pings, sseClock, handled, failed,
                 osConns, osConsumers, osLate>>
  /\ UNCHANGED <<invVars, busVars>>
  /\ UNCHANGED svcVars
  /\ UNCHANGED wsVars

\* The peer has gone and the server has not yet seen the stream close: a write
\* to the stream may throw from now on.
SseBreak(c) ==
  /\ conns[c].state = "open"
  /\ ~conns[c].broken
  /\ conns' = [conns EXCEPT ![c].broken = TRUE]
  /\ UNCHANGED <<registry, writes, pings, sseClock, handled, failed,
                 osConns, osConsumers, osLate>>
  /\ UNCHANGED <<invVars, busVars>>
  /\ UNCHANGED svcVars
  /\ UNCHANGED wsVars

\* request.raw.on('close'): removeClient.
SseClose(c) ==
  /\ conns[c].state = "open"
  /\ conns' = [conns EXCEPT ![c] = [state |-> "closed", broken |-> FALSE]]
  /\ registry' = Without(registry, {c})
  /\ UNCHANGED <<writes, pings, sseClock, handled, failed,
                 osConns, osConsumers, osLate>>
  /\ UNCHANGED <<invVars, busVars>>
  /\ UNCHANGED svcVars
  /\ UNCHANGED wsVars

\* The registered streams a write to which can throw.
Breakable(reg) == {c \in DOMAIN reg : conns[c].broken}

\* Mutant of Written: a write that throws ends the loop over the clients.
WrittenUntilFailure(T, F) == IF T \cap F = {} THEN T ELSE {}

\* sendToClient over the clients T, the writes to F throwing: the clients the
\* message was written to.
Written(T, F) == T \ F

\* Mutant of AfterSend: the catch block logs and leaves the client registered.
AfterSendKeepsFailed(reg, T, F) == reg

\* sendToClient over the clients T of the registry, the writes to F throwing:
\* the registry after the catch blocks have run removeClient.
AfterSend(reg, T, F) == Without(reg, T \cap F)

\* broadcastToSubscribers: the clients whose subscription set has the event
\* type itself or '*'.
Subscribed(reg, type) ==
  {c \in DOMAIN reg : type \in reg[c].subscriptions \/ Star \in reg[c].subscriptions}

\* sendToUser: the clients of the user.
OfUser(reg, u) == {c \in DOMAIN reg : reg[c].userId = u}

\* The handler's test for the per-user delivery: the type starts with 'user.'
\* or 'order.' and the payload has a userId.
Targeted(e) == e.userId # 0 /\ Len(e.type) > 1 /\ Head(e.type) \in {"user", "order"}

Bump(w, S) == [c \in ClientIds |-> IF c \in S THEN w[c] + 1 ELSE w[c]]

\* The broadcast handler invoked for event e: broadcastToSubscribers, then
\* sendToUser when the event is a user's; the whole of it inside try/catch.
Broadcast(e) ==
  /\ handled.n < MaxEvents
  /\ \E F1 \in SUBSET Breakable(registry), F2 \in SUBSET Breakable(registry) :
       LET T1 == Subscribed(registry, e.type)
           reg1 == AfterSend(registry, T1, F1)
           w1 == Bump([c \in ClientIds |-> 0], Written(T1, F1))
           T2 == IF Targeted(e) THEN OfUser(reg1, e.userId) ELSE {}
           reg2 == AfterSend(reg1, T2, F2)
           w2 == Bump(w1, Written(T2, F2))
           threw == (T1 \cap F1) \cup (T2 \cap F2)
       IN /\ registry' = reg2
          /\ writes' = w2
          /\ failed' = failed \cup threw
          /\ handled' = [n |-> handled.n + 1, type |-> e.type, userId |-> e.userId,
                          threw |-> threw, result |-> "returned"]
  /\ UNCHANGED <<conns, pings, sseClock, osConns, osConsumers, osLate>>
  /\ UNCHANGED <<invVars, busVars>>
  /\ UNCHANGED svcVars
  /\ UNCHANGED wsVars

\* pingClients, every 30 s: a client whose lastPing is older than the threshold
\* is removed, every other client is sent a ping.
Heartbeat ==
  /\ sseClock < MaxClock
  /\ \E F \in SUBSET Breakable(registry) :
       LET t == sseClock + 1
           stale == {c \in DOMAIN registry : t - registry[c].lastPing > StaleThreshold}
           T == DOMAIN registry \ stale
       IN /\ sseClock' = t
          /\ registry' = AfterSend(Without(registry, stale), T, F)
          /\ pings' = Written(T, F)
          /\ failed' = failed \cup (T \cap F)
  /\ UNCHANGED <<conns, writes, handled, osConns, osConsumers, osLate>>
  /\ UNCHANGED <<invVars, busVars>>
  /\ UNCHANGED svcVars
  /\ UNCHANGED wsVars

NextFan ==
  \/ \E u \in Users, route \in {"notifications", "orders"} : SseConnect(u, route)
  \/ \E c \in ClientIds : SseBreak(c)
  \/ \E c \in ClientIds : SseClose(c)
  \/ \E e \in FanEvents : Broadcast(e)
  \/ Heartbeat

SpecFan == Init /\ [][NextFan]_vars

\* ------------------------------------------ order service GET /sse/:userId
\* The stream opens and a bus consumer of its own is subscribed to order.*.
OsConnect(u) ==
  /\ \E c \in OsIds :
       /\ osConns[c].state = "none"
       /\ \A d \in OsIds : d < c => osConns[d].state # "none"
       /\ osConns' = [osConns EXCEPT ![c] = [state |-> "open", userId |-> u]]
       /\ osConsumers' = osConsumers \cup {c}
  /\ UNCHANGED <<conns, registry, writes, pings, sseClock, handled, failed, osLate>>
  /\ UNCHANGED <<invVars, busVars>>
  /\ UNCHANGED svcVars
  /\ UNCHANGED wsVars

\* request.raw.on('close'): a log line, and the ping interval is cleared.
OsClose(c) ==
  /\ osConns[c].state = "open"
  /\ osConns' = [osConns EXCEPT ![c].state = "closed"]
  /\ UNCHANGED <<conns, registry, writes, pings, sseClock, handled, failed,
                 osConsumers, osLate>>
  /\ UNCHANGED <<invVars, busVars>>
  /\ UNCHANGED svcVars
  /\ UNCHANGED wsVars

\* handleOrderEvent of stream c for an order event of user u: the event is
\* written to the stream when it is the stream's user's.
OsDeliver(c, u) ==
  /\ c \in osConsumers
  /\ osLate' = IF osConns[c].userId = u /\ osConns[c].state = "closed"
               THEN osLate \cup {c} ELSE osLate
  /\ UNCHANGED <<conns, registry, writes, pings, sseClock, handled, failed,
                 osConns, osConsumers>>
  /\ UNCHANGED <<invVars, busVars>>
  /\ UNCHANGED svcVars
  /\ UNCHANGED wsVars

NextOs ==
  \/ \E u \in Users : OsConnect(u)
  \/ \E c \in OsIds : OsClose(c)
  \/ \E c \in OsIds, u \in Users : OsDeliver(c, u)

SpecOs == Init /\ [][NextOs]_vars

\* ------------------------------- order.updated delivered to the inventory service
\* The order service's order.updated reaches the queue inventory.order.updated.
CancelArrives ==
  /\ cancelMsg.state = "none"
  /\ cancelMsg' = [cancelMsg EXCEPT !.state = "queued"]
  /\ UNCHANGED <<getVars, itemVars>>
  /\ UNCHANGED <<invVars, busVars, fanVars>>
  /\ UNCHANGED wsVars

\* The broker pushes the message and the consume callback starts.
CancelConsume ==
  /\ cancelMsg.state = "queued"
  /\ cancelMsg' = [cancelMsg EXCEPT !.state = "inflight", !.delivered = @ + 1]
  /\ UNCHANGED <<getVars, itemVars>>
  /\ UNCHANGED <<invVars, busVars, fanVars>>
  /\ UNCHANGED wsVars

\* The handler invocation the callback is awaiting, if it has begun.
Handling(p) == proc[p].op = "order.updated" /\ proc[p].pc # "idle"

\* The callback calls the handler: its findByOrderId.
CancelRead(p) ==
  /\ cancelMsg.state = "inflight"
  /\ \A q \in Procs : ~Handling(q)
  /\ OrderUpdatedRead(p)

\* Mutant of OrderUpdatedCreditFails: no try/catch in the handler, the
\* rejection leaves it.
OrderUpdatedCreditFailsUncaught(p) ==
  /\ proc[p].pc = "ou_credit"
  /\ proc' = Finish(p, 500)
  /\ UNCHANGED svcVars
  /\ UNCHANGED wsVars
  /\ UNCHANGED <<ledger, res, now, events, credited, started, orders, limit>>
  /\ UNCHANGED <<busVars, fanVars>>

\* inventoryRepository.release rejects in the order.updated handler: the
\* handler's catch block logs the error and the handler returns.
OrderUpdatedCreditFails(p) ==
  /\ proc[p].pc = "ou_credit"
  /\ proc' = [proc EXCEPT ![p] = Done(proc[p], NoResp)]
  /\ cancelMsg' = [cancelMsg EXCEPT !.caught = Current(p)]
  /\ UNCHANGED <<getVars, itemVars>>
  /\ UNCHANGED <<ledger, res, now, events, credited, started, orders, limit>>
  /\ UNCHANGED <<busVars, fanVars>>
  /\ UNCHANGED wsVars

\* await handler(event) is over: channel.ack when it returned, and
\* channel.nack(msg, false, false) in the callback's catch block when it threw.
CancelSettle(p) ==
  /\ cancelMsg.state = "inflight"
  /\ Handling(p)
  /\ proc[p].pc = "done"
  /\ cancelMsg' = IF proc[p].resp.code = 500
                  THEN [cancelMsg EXCEPT !.state = "nacked", !.nacked = @ + 1]
                  ELSE [cancelMsg EXCEPT !.state = "acked", !.acked = @ + 1]
  /\ proc' = [proc EXCEPT ![p] = Idle]
  /\ UNCHANGED <<getVars, itemVars>>
  /\ UNCHANGED <<ledger, res, now, events, credited, started, orders, limit>>
  /\ UNCHANGED <<busVars, fanVars>>
  /\ UNCHANGED wsVars

\* /reserve and /release requests, the sweeper and the delivery of the
\* order.updated message, the handlers one after another.
NextCancel ==
  \/ \E p \in Procs : Solo(p) /\ ReserveRead(p)
  \/ \E p \in Procs : Solo(p) /\ ReserveCreate(p)
  \/ \E p \in Procs : Solo(p) /\ ReserveUpdate(p)
  \/ \E p \in Procs : Solo(p) /\ ReservePublish(p)
  \/ \E p \in Procs : Solo(p) /\ ReleaseRead(p)
  \/ \E p \in Procs : Solo(p) /\ ReleaseStatus(p)
  \/ \E p \in Procs : Solo(p) /\ ReleaseReadInv(p)
  \/ \E p \in Procs : Solo(p) /\ ReleaseUpdate(p)
  \/ \E p \in Procs : Solo(p) /\ ReleasePublish(p)
  \/ \E p \in Procs : Solo(p) /\ SweepRead(p)
  \/ \E p \in Procs : Solo(p) /\ SweepRelease(p)
  \/ \E p \in Procs : Solo(p) /\ SweepCredit(p)
  \/ \E p \in Procs : ~Handling(p) /\ Return(p)
  \/ CancelArrives
  \/ CancelConsume
  \/ \E p \in Procs : Solo(p) /\ CancelRead(p)
  \/ \E p \in Procs : OrderUpdatedRelease(p)
  \/ \E p \in Procs : OrderUpdatedCredit(p)
  \/ \E p \in Procs : OrderUpdatedCreditFails(p)
  \/ \E p \in Procs : CancelSettle(p)
  \/ Tick

SpecCancel == InitWith(1..NumProducts, 1..NumOrders, MaxOps + 1) /\ [][NextCancel]_vars

\* ------------------------------------------------------------- getEventBus
\* A call of getEventBus: with no instance it makes one and awaits its
\* connect(); with an instance it returns it at once, whatever its channel.
GetEventBus(c) ==
  /\ getter[c] = "idle"
  /\ \A d \in Callers : d < c => getter[d] # "idle"
  /\ IF ~instance
     THEN /\ instance' = TRUE
          /\ getter' = [getter EXCEPT ![c] = "connecting"]
     ELSE /\ getter' = [getter EXCEPT ![c] =
                          IF channel THEN "connected" ELSE "uninitialised"]
          /\ UNCHANGED instance
  /\ UNCHANGED <<cancelMsg, itemVars>>
  /\ UNCHANGED <<invVars, busVars, fanVars>>
  /\ UNCHANGED wsVars

\* connect() has set the channel; the caller that made the instance gets it.
GetConnected(c) ==
  /\ getter[c] = "connecting"
  /\ channel' = TRUE
  /\ getter' = [getter EXCEPT ![c] = "connected"]
  /\ UNCHANGED <<instance, cancelMsg, itemVars>>
  /\ UNCHANGED <<bound, calls, msgs, queue, inflight, delivered, acked, nacked, outcome>>
  /\ UNCHANGED <<invVars, fanVars>>
  /\ UNCHANGED wsVars

\* connect() throws (the broker is unreachable): the exception leaves
\* getEventBus, eventBusInstance stays assigned.
GetConnectFails(c) ==
  /\ getter[c] = "connecting"
  /\ getter' = [getter EXCEPT ![c] = "threw"]
  /\ UNCHANGED <<instance, cancelMsg, itemVars>>
  /\ UNCHANGED <<invVars, busVars, fanVars>>
  /\ UNCHANGED wsVars

\* Some caller holds the instance getEventBus returned to it.
Holds == \E c \in Callers : getter[c] \in {"connected", "uninitialised"}

\* The calls of getEventBus, and the callers publishing on what they got.
NextGet ==
  \/ \E c \in Callers : GetEventBus(c)
  \/ \E c \in Callers : GetConnected(c)
  \/ \E c \in Callers : GetConnectFails(c)
  \/ \E t \in Topics : Holds /\ Publish(t)

SpecGet == Init /\ [][NextGet]_vars

\* ------------------------------------------------- creating inventory items
\* The documents of a product in the collection.
ItemsOf(r) == {i \in 1..Len(items) : items[i].productId = r}

NewItem(r, stock) ==
  [productId |-> r, available |-> stock, reserved |-> 0, total |-> stock]

\* Mutant of Insert: the collection has no unique index on productId.
InsertNoIndex(r, stock) == Append(items, NewItem(r, stock))

\* inventoryRepository.create under the unique index on productId: the
\* collection after the insert; an insert of a second document for the product
\* is rejected and leaves the collection as it was.
Insert(r, stock) ==
  IF ItemsOf(r) = {} THEN Append(items, NewItem(r, stock)) ELSE items

\* The product.created handler for product r with the given stock: create,
\* inside try/catch.
ProductCreated(r, stock) ==
  /\ pcMsgs < MaxCreates
  /\ pcMsgs' = pcMsgs + 1
  /\ items' = Insert(r, stock)
  /\ UNCHANGED <<creator, getVars, cancelMsg>>
  /\ UNCHANGED <<invVars, busVars, fanVars>>
  /\ UNCHANGED wsVars

\* POST / by an admin: findByProductId; 409 when an item exists.
AdminCreateRead(a, r, t) ==
  /\ creator[a].pc = "idle"
  /\ \A b \in Admins : b < a => creator[b].pc # "idle"
  /\ creator' = [creator EXCEPT ![a] =
                   IF ItemsOf(r) # {}
                   THEN [pc |-> "done", productId |-> r, total |-> t, code |-> 409]
                   ELSE [pc |-> "create", productId |-> r, total |-> t, code |-> 0]]
  /\ UNCHANGED <<items, pcMsgs, getVars, cancelMsg>>
  /\ UNCHANGED <<invVars, busVars, fanVars>>
  /\ UNCHANGED wsVars

\* POST /: inventoryRepository.create; 201, or an error when the store rejects.
AdminCreateWrite(a) ==
  /\ creator[a].pc = "create"
  /\ items' = Insert(creator[a].productId, creator[a].total)
  /\ creator' = [creator EXCEPT ![a].pc = "done",
                                 ![a].code = IF Len(items') > Len(items) THEN 201 ELSE 500]
  /\ UNCHANGED <<pcMsgs, getVars, cancelMsg>>
  /\ UNCHANGED <<invVars, busVars, fanVars>>
  /\ UNCHANGED wsVars

\* POST /reserve's write on item i: a unit moves from available to reserved.
ItemDebit(i) ==
  /\ items[i].available > 0
  /\ items' = [items EXCEPT ![i].available = @ - 1, ![i].reserved = @ + 1]
  /\ UNCHANGED <<creator, pcMsgs, getVars, cancelMsg>>
  /\ UNCHANGED <<invVars, busVars, fanVars>>
  /\ UNCHANGED wsVars

NextItems ==
  \/ \E r \in ItemProducts, stock \in Qtys : ProductCreated(r, stock)
  \/ \E a \in Admins, r \in ItemProducts, t \in Qtys : AdminCreateRead(a, r, t)
  \/ \E a \in Admins : AdminCreateWrite(a)
  \/ \E i \in 1..Len(items) : ItemDebit(i)

SpecItems == Init /\ [][NextItems]_vars

\* ------------------------------------------------------------ gateway sockets
\* The event names a client can put in its subscribe message.
RoomNames == {e.type : e \in FanEvents} \cup {<<"order", "*">>}

\* io.on('connection') for a socket authenticated as user u: it joins the
\* room user:<u>.
WsConnect(u) ==
  /\ \E k \in SocketIds :
       /\ sockets[k].state = "none"
       /\ \A j \in SocketIds : j < k => sockets[j].state # "none"
       /\ sockets' = [sockets EXCEPT ![k] =
                        [state |-> "open", userId |-> u, events |-> {}]]
  /\ UNCHANGED <<wsEmits, wsHandled>>
  /\ UNCHANGED <<invVars, busVars, fanVars, svcVars>>

\* socket.on('subscribe'): the socket joins the room event:<name> for the
\* name the client sent.
WsSubscribe(k, name) ==
  /\ sockets[k].state = "open"
  /\ name \notin sockets[k].events
  /\ sockets' = [sockets EXCEPT ![k].events = @ \cup {name}]
  /\ UNCHANGED <<wsEmits, wsHandled>>
  /\ UNCHANGED <<invVars, busVars, fanVars, svcVars>>

\* socket.on('unsubscribe'): the socket leaves the room.
WsUnsubscribe(k, name) ==
  /\ sockets[k].state = "open"
  /\ name \in sockets[k].events
  /\ sockets' = [sockets EXCEPT ![k].events = @ \ {name}]
  /\ UNCHANGED <<wsEmits, wsHandled>>
  /\ UNCHANGED <<invVars, busVars, fanVars, svcVars>>

\* The socket disconnects: it is out of every room.
WsDisconnect(k) ==
  /\ sockets[k].state = "open"
  /\ sockets' = [sockets EXCEPT ![k] = [state |-> "closed", userId |-> 0, events |-> {}]]
  /\ UNCHANGED <<wsEmits, wsHandled>>
  /\ UNCHANGED <<invVars, busVars, fanVars, svcVars>>

\* The sockets in the room event:<type>.
InEventRoom(type) == {k \in SocketIds : sockets[k].state = "open" /\ type \in sockets[k].events}

\* The sockets in the room user:<u>.
InUserRoom(u) == {k \in SocketIds : sockets[k].state = "open" /\ sockets[k].userId = u}

\* The socket broadcast handler invoked for event e: an emit to the room
\* event:<type>, then an emit to the room user:<userId> when the type starts
\* with 'user.' or 'order.' and the payload has a userId.
WsBroadcast(e) ==
  /\ wsHandled.n < MaxEvents
  /\ wsHandled' = [n |-> wsHandled.n + 1, type |-> e.type, userId |-> e.userId]
  /\ wsEmits' = [k \in SocketIds |->
                   (IF k \in InEventRoom(e.type) THEN 1 ELSE 0)
                   + (IF Targeted(e) /\ k \in InUserRoom(e.userId) THEN 1 ELSE 0)]
  /\ UNCHANGED sockets
  /\ UNCHANGED <<invVars, busVars, fanVars, svcVars>>

NextWs ==
  \/ \E u \in Users : WsConnect(u)
  \/ \E k \in SocketIds, name \in RoomNames : WsSubscribe(k, name)
  \/ \E k \in SocketIds, name \in RoomNames : WsUnsubscribe(k, name)
  \/ \E k \in SocketIds : WsDisconnect(k)
  \/ \E e \in FanEvents : WsBroadcast(e)

SpecWs == Init /\ [][NextWs]_vars

\* ------------------------------------------- two products and two orders
\* The handlers one after another, over two products and two orders.
SpecFrame == InitWith(1..2, 1..2, MaxOps) /\ [][NextSeq]_vars

\* ===================================================================== claims
\* The sum of the quantities of a set of reservations.
RECURSIVE SumQty(_)
SumQty(S) ==
  IF S = {} THEN 0
  ELSE LET x == CHOOSE y \in S : TRUE IN res[x].quantity + SumQty(S \ {x})

\* The /reserve that created reservation x answered 201: its event went out.
Succeeded(x) == BagIn(Event("inventory.reserved", x), events)

\* C1: in every reachable state, after any interleaving of the handlers, every
\* ledger entry satisfies available + reserved = total.
C1_LedgerBalanced ==
  \A r \in Products : ledger[r].available + ledger[r].reserved = ledger[r].total

\* C2: in every reachable state every ledger entry has available >= 0 and
\* reserved >= 0.
C2_LedgerNonNegative ==
  \A r \in Products : ledger[r].available >= 0 /\ ledger[r].reserved >= 0

\* C3: of concurrent /reserve requests against one product, the quantities of
\* those that succeed never add up to more than the stock that was available.
C3_NoOversell ==
  \A r \in Products :
    SumQty({x \in Ids : res[x].productId = r /\ Succeeded(x)}) <= InitStock

\* p takes the step that leads it from position a to position b.
Moves(p, a, b) == proc[p].pc = a /\ proc'[p].pc = b

\* p begins a handler of kind op in this step.
Begins(p, op) == proc[p].pc = "idle" /\ proc'[p].op = op

ReservedEvent(me) ==
  [type |-> "inventory.reserved", reservationId |-> me.rid, orderId |-> me.orderId,
   productId |-> me.productId, quantity |-> me.quantity]

\* C4: a /reserve that reads an entry with available >= quantity goes on to
\* create exactly one reservation, pending, expiring at now + ttl; its ledger
\* update sets available to the available it read less quantity and reserved to
\* the reserved it read plus quantity, and leaves total; its publish hands over
\* one inventory.reserved event with the reservation's id, order, product and
\* quantity, and then it answers 201.
C4_ReserveEffect ==
  [][\A p \in Procs :
       LET me == proc[p]
           r == me.productId
           q == me.quantity
       IN /\ (Begins(p, "reserve")
                 /\ ledger[proc'[p].productId].available >= proc'[p].quantity)
              => /\ proc'[p].pc = "rsv_create"
                 /\ proc'[p].inv = ledger[proc'[p].productId]
                 /\ UNCHANGED <<ledger, res, events>>
          /\ Moves(p, "rsv_create", "rsv_update")
              => /\ Len(res') = Len(res) + 1
                 /\ \A x \in Ids : res'[x] = res[x]
                 /\ proc'[p].rid = Len(res')
                 /\ res'[Len(res')].status = "pending"
                 /\ res'[Len(res')].exists
                 /\ res'[Len(res')].expiresAt = now + me.ttl
                 /\ res'[Len(res')].orderId = me.orderId
                 /\ res'[Len(res')].productId = r
                 /\ res'[Len(res')].quantity = q
                 /\ UNCHANGED <<ledger, events>>
          /\ Moves(p, "rsv_update", "rsv_publish")
              => /\ ledger' = [ledger EXCEPT ![r] =
                                 [available |-> me.inv.available - q,
                                  reserved |-> me.inv.reserved + q,
                                  total |-> ledger[r].total]]
                 /\ UNCHANGED events
          /\ Moves(p, "rsv_publish", "done")
              => /\ UNCHANGED ledger
                 /\ \/ /\ proc'[p].resp.code = 201
                       /\ events' = events (+) SetToBag({ReservedEvent(me)})
                       /\ CopiesIn(ReservedEvent(me), events') = 1
                    \/ /\ proc'[p].resp.code = 500
                       /\ events' = events
  ]_vars

\* A /reserve has answered 201 and left the ledger, from (InitStock, 0, InitStock),
\* at (InitStock - q, q, InitStock) with its reservation pending and its event out.
C4_Witness ==
  \E p \in Procs :
    /\ proc[p].pc = "done" /\ proc[p].op = "reserve" /\ proc[p].resp.code = 201
    /\ res[proc[p].rid].status = "pending"
    /\ Succeeded(proc[p].rid)
    /\ ledger[proc[p].productId] =
         [available |-> InitStock - proc[p].quantity,
          reserved |-> proc[p].quantity, total |-> InitStock]

\* C5: a /reserve whose quantity exceeds the available of the entry it reads
\* answers 400 with the available and requested figures and changes nothing: no
\* reservation, no ledger update, no event.
C5_InsufficientStock ==
  [][\A p \in Procs :
       (Begins(p, "reserve")
          /\ ledger[proc'[p].productId].available < proc'[p].quantity)
       => /\ proc'[p].pc = "done"
          /\ proc'[p].resp = [code |-> 400,
                              available |-> ledger[proc'[p].productId].available,
                              requested |-> proc'[p].quantity]
          /\ UNCHANGED <<ledger, res, events>>
  ]_vars

\* A /reserve was refused for a quantity larger than what earlier reservations
\* had left available.
C5_Witness ==
  \E p \in Procs :
    /\ proc[p].pc = "done" /\ proc[p].op = "reserve" /\ proc[p].resp.code = 400
    /\ proc[p].resp.requested > proc[p].resp.available
    /\ proc[p].resp.available < InitStock
    /\ Len(res) >= 1

\* C6: the order.created handler's confirmation of a pending reservation of
\* quantity q sets its status to confirmed, leaves available, and lowers both
\* reserved and total by q.
C6_ConfirmEffect ==
  [][\A p \in Procs :
       (/\ proc[p].pc = "oc_confirm"
        /\ proc'[p] # proc[p]
        /\ res[Current(p)].exists
        /\ res[Current(p)].status = "pending")
       => LET x == Current(p)
              r == res[x].productId
              q == res[x].quantity
          IN /\ res'[x].status = "confirmed"
             /\ ledger'[r] = [available |-> ledger[r].available,
                              reserved |-> ledger[r].reserved - q,
                              total |-> ledger[r].total - q]
  ]_vars

\* C7: release is idempotent on the ledger: a release, by the route, the
\* cancellation consumer or the sweeper, of a reservation whose quantity an
\* earlier release has already handed back leaves every ledger entry as it is.
C7_ReleaseIdempotent ==
  [][\A x \in Ids :
       (credited[x] >= 1 /\ credited'[x] = credited[x] + 1) => ledger' = ledger
  ]_vars

\* C8: with no other handler at work on the product in between, the ledger
\* update of a /reserve takes the entry from its value before the request (pre)
\* to its value after it (post), and a release of the resulting reservation that
\* finds the entry at post takes it back to pre: available and reserved
\* restored, total as it was.
C8_RoundTrip ==
  [][/\ \A p \in Procs :
          Moves(p, "rsv_update", "rsv_publish")
          => /\ res[proc[p].rid].pre = ledger[proc[p].productId]
             /\ res'[proc[p].rid].post = ledger'[proc[p].productId]
     /\ \A x \in Ids :
          (credited'[x] = credited[x] + 1 /\ ledger[res[x].productId] = res[x].post)
          => ledger'[res[x].productId] = res[x].pre
  ]_vars

\* A /release answered 204 for a reservation whose /reserve had changed the
\* entry, and the entry is back at its value before that /reserve.
C8_Witness ==
  \E p \in Procs :
    /\ proc[p].pc = "done" /\ proc[p].op = "release" /\ proc[p].resp.code = 204
    /\ res[proc[p].rid].status = "released"
    /\ credited[proc[p].rid] = 1
    /\ res[proc[p].rid].post # res[proc[p].rid].pre
    /\ ledger[proc[p].productId] = res[proc[p].rid].pre

\* C9: a /release of a reservation that is stored with status released answers
\* with success and changes neither the reservations nor the ledger, and
\* publishes nothing.
C9_ReleasedNoop ==
  [][\A p \in Procs :
       (/\ Begins(p, "release")
        /\ res[proc'[p].rid].exists
        /\ res[proc'[p].rid].status = "released")
       => /\ proc'[p].pc = "done"
          /\ proc'[p].resp.code \in {200, 204}
          /\ UNCHANGED <<res, ledger, events>>
  ]_vars

\* C10: reservation status only moves forward: a released reservation stays
\* released, and no reservation returns to pending.
C10_StatusForward ==
  [][\A x \in Ids :
       /\ res[x].status = "released" => res'[x].status = "released"
       /\ res[x].status # "pending" => res'[x].status # "pending"
  ]_vars

\* C11: the sweeper never releases a reservation that is confirmed at the moment
\* of the mutation: its releaseReservation on a reservation stored as confirmed
\* leaves the status confirmed, and no ledger credit for it follows.
C11_SweeperSparesConfirmed ==
  [][\A p \in Procs :
       (/\ proc[p].pc = "sw_release"
        /\ proc'[p] # proc[p]
        /\ res[Current(p)].exists
        /\ res[Current(p)].status = "confirmed")
       => /\ res'[Current(p)].status = "confirmed"
          /\ proc'[p].pc # "sw_credit"
  ]_vars

\* C12: no reservation disappears while pending with its quantity still counted
\* in reserved: with no handler at work, a reservation that is no longer stored
\* and never left pending has had its quantity credited back.
C12_ExpiredReclaimed ==
  Quiescent =>
    \A x \in Ids :
      (~res[x].exists /\ res[x].status = "pending") => credited[x] >= 1

\* C13: every transition of a reservation to released is followed by exactly one
\* inventory.released event for it: with no handler at work, every reservation
\* in status released has exactly one such event published.
C13_ReleasedPublished ==
  Quiescent =>
    \A x \in Ids :
      res[x].status = "released"
      => CopiesIn(Event("inventory.released", x), events) = 1

\* C14: confirm is idempotent under redelivery: a handling of order.created
\* leaves none of the reservations it found pending in status pending, and a
\* handling that finds no pending reservation of the order, as a redelivery
\* does, ends at once and changes no reservation, no ledger entry and no event.
C14_ConfirmIdempotent ==
  [][\A p \in Procs :
       /\ (Begins(p, "order.created")
              /\ OrderReservations(proc'[p].orderId, {"pending"}) = <<>>)
           => /\ proc'[p].pc = "done"
              /\ UNCHANGED <<res, ledger, events>>
       /\ (proc[p].op = "order.created" /\ Moves(p, "oc_confirm", "done"))
           => \A i \in 1..Len(proc[p].list) :
                res'[proc[p].list[i]].exists
                => res'[proc[p].list[i]].status # "pending"
  ]_vars

\* order.created was handled twice, by two invocations that have both ended, and a
\* reservation of the order is confirmed.
C14_Witness ==
  \E p, q \in Procs :
    /\ p # q
    /\ proc[p].pc = "done" /\ proc[p].op = "order.created"
    /\ proc[q].pc = "done" /\ proc[q].op = "order.created"
    /\ \E x \in Ids : res[x].exists /\ res[x].status = "confirmed"

\* Message m waits in queue s.
InQueue(s, m) == \E k \in 1..Len(queue[s]) : queue[s][k] = m

\* The messages the exchange routes to queue s: those handed to it while s was
\* bound whose routing key matches the pattern of s.
Routed(s) ==
  {i \in 1..Len(msgs) : s \in msgs[i].subs /\ Match(Pattern(s), msgs[i].type)}

\* C15: every delivered message is settled exactly once: acked when the handler
\* returned, nacked when it threw, never both and never twice; a message whose
\* handler threw is neither back in the queue nor delivered a second time.
C15_SettledOnce ==
  \A s \in Subs : \A m \in MsgIds :
    /\ acked[s][m] + nacked[s][m] <= 1
    /\ outcome[s][m] = "none" => acked[s][m] = 0 /\ nacked[s][m] = 0
    /\ outcome[s][m] = "returned" => acked[s][m] = 1 /\ nacked[s][m] = 0
    /\ outcome[s][m] = "threw"
         => /\ nacked[s][m] = 1 /\ acked[s][m] = 0
            /\ delivered[s][m] = 1
            /\ m \notin inflight[s]
            /\ ~InQueue(s, m)

\* On one queue a handler threw for one message and returned for a later one.
C15_Witness ==
  \E s \in Subs : \E m1, m2 \in MsgIds :
    /\ m1 < m2
    /\ outcome[s][m1] = "threw" /\ nacked[s][m1] = 1
    /\ outcome[s][m2] = "returned" /\ acked[s][m2] = 1

\* C16: a call of publish throws whenever the channel is not set or
\* channel.publish answers false; a call that returns has handed the exchange
\* exactly one message, whose type is the routing key; and the exchange gets a
\* message only within a call of publish, one at most: the bus sends nothing
\* later on its own.
C16_PublishOutcome ==
  [][/\ Len(calls') = Len(calls) + 1
        => LET c == calls'[Len(calls')]
           IN /\ (~channel \/ c.sent = "false") => c.result = "threw"
              /\ ~channel => UNCHANGED <<msgs, queue>>
              /\ c.result = "returned"
                   => /\ Len(msgs') = Len(msgs) + 1
                      /\ msgs'[Len(msgs')].type = c.routingKey
              /\ Len(msgs') <= Len(msgs) + 1
              /\ SubSeq(msgs', 1, Len(msgs)) = msgs
     /\ Len(calls') = Len(calls) => msgs' = msgs
  ]_vars

\* publish has thrown for want of a channel, thrown on a rejected send, and
\* returned after a send.
C16_Witness ==
  \E i, j, k \in 1..Len(calls) :
    /\ ~calls[i].channel /\ calls[i].result = "threw"
    /\ calls[j].sent = "false" /\ calls[j].result = "threw"
    /\ calls[k].sent = "true" /\ calls[k].result = "returned"
    /\ Len(msgs) >= 1

\* C17: every message is delivered once to each subscription whose pattern
\* matches it, and to no other, whatever the other subscriptions have received
\* or finished.
C17_Broadcast ==
  /\ [](\A s \in Subs : \A i \in MsgIds :
          /\ delivered[s][i] <= 1
          /\ delivered[s][i] = 1 => i \in Routed(s))
  /\ \A s \in Subs : \A i \in MsgIds :
       (i \in Routed(s)) ~> (delivered[s][i] = 1)

\* An order.created message has reached the notification consumer while the
\* inventory consumer, which got it too, has not finished with it.
C17_Witness ==
  \E i \in 1..Len(msgs) :
    /\ msgs[i].type = OrderCreated
    /\ delivered["notifications.order.created"][i] = 1
    /\ outcome["notifications.order.created"][i] = "returned"
    /\ delivered["inventory.order.created"][i] = 1
    /\ outcome["inventory.order.created"][i] = "none"

\* C18: a handler invocation that failed is not run again for its message, and
\* once a handler has failed every message waiting in any queue, the failed
\* handler's own or a sibling's, is still delivered.
C18_FailureIsolated ==
  /\ [](\A s \in Subs : \A m \in MsgIds :
          outcome[s][m] = "threw" => delivered[s][m] = 1 /\ ~InQueue(s, m))
  /\ \A s \in Subs : \A m \in MsgIds :
       ((\E f \in Subs : \E n \in MsgIds : outcome[f][n] = "threw") /\ InQueue(s, m))
         ~> (delivered[s][m] = 1)

\* The inventory consumer's handler failed for an order.created message; the
\* notification consumer handled the same message, and the inventory consumer a
\* later one.
C18_Witness ==
  \E m1, m2 \in MsgIds :
    /\ m1 < m2
    /\ outcome["inventory.order.created"][m1] = "threw"
    /\ outcome["notifications.order.created"][m1] = "returned"
    /\ outcome["inventory.order.created"][m2] = "returned"

\* C19: within one queue at most one handler invocation is in progress.
C19_OneAtATime ==
  \A s \in Subs : Cardinality(inflight[s]) <= 1

\* C20: every message handed to the exchange while a broadcaster's queue is
\* bound reaches that queue.
C20_BroadcasterGetsAll ==
  \A s \in Broadcasters : \A i \in 1..Len(msgs) :
    s \in msgs[i].subs => (InQueue(s, i) \/ delivered[s][i] >= 1)

\* The broadcast handler has just run: this step is its invocation.
Handles == handled'.n = handled.n + 1

\* The streams registered before and after the step.
Kept == DOMAIN registry \cap DOMAIN registry'

\* C21: subscription patterns match with wildcards: when the handler runs for
\* an event, every stream that stays registered and has a pattern in its
\* subscription set that matches the event type (* for one word, so order.*
\* matches order.created) is written the event.
C21_WildcardDelivered ==
  [][Handles =>
       \A c \in Kept :
         (\E pat \in registry[c].subscriptions : Match(pat, handled'.type))
         => writes'[c] >= 1]_vars

\* C22: an event whose payload has a userId, whatever its type, is written to
\* every stream of that user that stays registered.
C22_UserDelivered ==
  [][(Handles /\ handled'.userId # 0) =>
       \A c \in Kept :
         registry[c].userId = handled'.userId => writes'[c] >= 1]_vars

\* C23: a write that throws does not keep the event from the other streams:
\* every registered stream the handler addresses (by subscription or as the
\* event's user) whose own write did not throw is written the event and stays
\* registered, and the handler returns normally.
C23_FailureIsolated ==
  [][Handles =>
       /\ handled'.result = "returned"
       /\ \A c \in DOMAIN registry \ handled'.threw :
            (\/ c \in Subscribed(registry, handled'.type)
             \/ Targeted(handled') /\ registry[c].userId = handled'.userId)
            => writes'[c] >= 1 /\ c \in DOMAIN registry']_vars

\* A write of the event threw for one stream and another stream was written it.
C23_Witness ==
  /\ handled.threw # {}
  /\ \E c \in DOMAIN registry : writes[c] >= 1

\* C24: a stream a write to which has thrown is no longer registered, and
\* nothing is written to it afterwards: no event and no ping.
C24_FailedRemoved ==
  [][\A c \in failed' :
       /\ c \notin DOMAIN registry'
       /\ c \in failed =>
            /\ handled' # handled => writes'[c] = 0
            /\ sseClock' # sseClock => c \notin pings']_vars

\* A write to a stream threw while the first event was handled; the stream is
\* still open, and the second event went to another stream only.
C24_Witness ==
  /\ sseClock = 0
  /\ handled.n = 2
  /\ handled.threw = {}
  /\ \E c \in failed : conns[c].state = "open" /\ writes[c] = 0
  /\ \E d \in DOMAIN registry : writes[d] >= 1

\* C25: a stream that stays open, with every write to it succeeding, is never
\* removed from the registry.
C25_HealthyKept ==
  [][\A c \in DOMAIN registry :
       (conns[c].state = "open" /\ conns'[c].state = "open" /\ ~conns'[c].broken)
       => c \in DOMAIN registry']_vars

\* C26: a stream is registered exactly while it is open: what delivers events
\* to it (the gateway's registry entry, the order service's consumer) exists
\* only for open streams, and nothing is written to a stream that has closed.
C26_RegisteredWhileOpen ==
  /\ \A c \in DOMAIN registry : conns[c].state = "open"
  /\ \A c \in osConsumers : osConns[c].state = "open"
  /\ osLate = {}

\* C27: when the publish inside /reserve or /release fails, the request answers
\* with an error and the state change is not left in place: after a failed
\* /reserve its reservation is not stored as pending and the ledger entry is as
\* the request found it; after a failed /release the reservation is not released
\* and the ledger entry has not been credited for it.
C27_PublishFailureUndone ==
  \A p \in Procs :
    (proc[p].pc = "done" /\ proc[p].resp.code = 500)
    => /\ proc[p].op = "reserve"
            => /\ ~(res[proc[p].rid].exists /\ res[proc[p].rid].status = "pending")
               /\ ledger[proc[p].productId] = res[proc[p].rid].pre
       /\ proc[p].op = "release"
            => /\ res[proc[p].rid].status # "released"
               /\ credited[proc[p].rid] = 0

\* C29: over a reservation's lifetime its quantity is credited back to the
\* ledger at most once, whatever the interleaving of sweeper ticks, cancellation
\* handlers and /release requests.
C29_CreditedAtMostOnce ==
  \A x \in Ids : credited[x] <= 1

\* C28: a sweeper reclaim that fails part-way is completed by a later tick: a
\* reservation that a tick left released without its quantity credited to the
\* ledger is eventually released with its quantity credited.
C28_PartialReclaimCompleted ==
  \A x \in 1..MaxRes :
    (Quiescent /\ x <= Len(res) /\ res[x].status = "released" /\ credited[x] = 0)
    ~> (x <= Len(res) /\ res[x].status = "released" /\ credited[x] >= 1)

\* C30: in every state with no operation in progress, each ledger entry's
\* reserved is the sum of the quantities of the stored reservations of that
\* product that are pending.
C30_ReservedIsPendingSum ==
  Quiescent =>
    \A r \in Products :
      ledger[r].reserved =
        SumQty({x \in Ids : /\ res[x].exists
                            /\ res[x].productId = r
                            /\ res[x].status = "pending"})

\* C31: when the ledger credit is rejected inside the order.updated handler
\* after the reservation's status was changed, the handler catches it, the
\* message is acked and never nacked, the callback is invoked for it once only,
\* and from then on the reservation stays released with its quantity never
\* credited.
C31_CaughtAckedPermanent ==
  [][/\ cancelMsg'.nacked = 0
     /\ cancelMsg'.delivered <= 1
     /\ cancelMsg'.state \notin {"none", "queued", "inflight"} => cancelMsg'.acked = 1
     /\ \A x \in Ids :
          (cancelMsg.caught = x /\ cancelMsg.state = "acked")
          => res'[x].status = "released" /\ credited'[x] = 0]_vars

\* The handler caught the rejected credit and the message is acked; the
\* reservation, released and uncredited, has since expired.
C31_Witness ==
  /\ cancelMsg.caught # 0
  /\ cancelMsg.state = "acked"
  /\ res[cancelMsg.caught].status = "released"
  /\ credited[cancelMsg.caught] = 0
  /\ res[cancelMsg.caught].expiresAt < now

\* C32: every bus a call of getEventBus returns is connected: no caller gets
\* an instance whose channel is not initialised.
C32_ReturnedConnected ==
  \A c \in Callers : getter[c] # "uninitialised"

\* C33: the admin PATCH leaves the entry it wrote well-formed: when its write
\* completes, available + reserved = total and available >= 0.
C33_PatchWellFormed ==
  [][\A p \in Procs :
       (proc[p].pc = "patch_write" /\ proc'[p].pc = "done")
       => LET inv == ledger'[proc[p].productId]
          IN inv.available + inv.reserved = inv.total /\ inv.available >= 0]_vars

\* A product.created delivery or an admin create request has just acted.
Creates == pcMsgs' # pcMsgs \/ creator' # creator

\* C34: the collection never holds two items of one product, and a
\* product.created delivery or an admin create leaves every item that already
\* exists as it was.
C34_OneItemPerProduct ==
  [][/\ \A r \in ItemProducts : Cardinality({i \in 1..Len(items') : items'[i].productId = r}) <= 1
     /\ Creates => \A i \in 1..Len(items) : i <= Len(items') /\ items'[i] = items[i]]_vars

\* An item whose counters have moved since its creation, and create attempts
\* for its product rejected by the store: a second product.created handled, an
\* admin create that had read no item answered with an error.
C34_Witness ==
  /\ \E i \in 1..Len(items) :
       /\ items[i].reserved > 0
       /\ \E a \in Admins : creator[a].code = 500 /\ creator[a].productId = items[i].productId
  /\ pcMsgs = 2
  /\ Len(items) = 1

\* The socket broadcast handler has just run.
WsHandles == wsHandled'.n = wsHandled.n + 1

\* C35: for each event the broadcaster handles, each connection is delivered
\* the event at most once, also when it is both subscribed to the event's type
\* and the event's user.
C35_AtMostOnce ==
  [][WsHandles => \A k \in SocketIds : wsEmits'[k] <= 1]_vars

\* C36: an order.* or user.* event is delivered only to connections of the
\* user its payload names, whatever the connection subscribed to.
C36_OwnEventsOnly ==
  [][(WsHandles /\ Len(wsHandled'.type) > 1 /\ Head(wsHandled'.type) \in {"order", "user"})
       => \A k \in SocketIds :
            wsEmits'[k] >= 1 => sockets[k].userId = wsHandled'.userId]_vars

\* C37: an inventory.reserved event is handed over only by a /reserve whose
\* reservation has been created and whose ledger write had
\* debited its quantity from the available it read; and only by a /reserve that
\* then answers 201: none is handed over for a /reserve that fails.
C37_ReservedAfterWrites ==
  [][\A p \in Procs :
       (proc[p].pc = "rsv_publish" /\ events' # events)
       => /\ proc[p].rid \in Ids
          /\ res[proc[p].rid].post.available
               = res[proc[p].rid].pre.available - proc[p].quantity
          /\ proc'[p].resp.code = 201]_vars

\* The reservation a step of p acts on, and that reservation's product.
TargetRes(p) ==
  IF proc[p].op \in {"reserve", "release"} THEN proc[p].rid ELSE Current(p)

TargetProduct(p) ==
  IF proc[p].op \in {"reserve", "release"} THEN proc[p].productId
  ELSE res[Current(p)].productId

\* C38: a step of /reserve, /release, the order.created handler, the
\* order.updated handler or the sweeper, acting on a reservation of product r,
\* leaves the ledger entry of every other product and the status of every other
\* reservation as they were; the order handlers change reservations of their
\* own order only.
C38_Frame ==
  [][\A p \in Procs :
       (/\ proc'[p] # proc[p]
        /\ proc[p].pc \notin {"idle", "done"}
        /\ proc[p].op # "patch")
       => /\ \A r \in Products : r # TargetProduct(p) => ledger'[r] = ledger[r]
          /\ \A x \in Ids : x # TargetRes(p) => res'[x].status = res[x].status
          /\ \A x \in Ids :
               (res'[x].status # res[x].status
                  /\ proc[p].op \in {"order.created", "order.updated"})
               => res[x].orderId = proc[p].orderId]_vars

\* Two reservations of different products and orders: one has been released
\* and credited, the other is pending with its product's entry as its /reserve
\* left it.
C38_Witness ==
  \E x, y \in Ids :
    /\ res[x].productId # res[y].productId
    /\ res[x].orderId # res[y].orderId
    /\ res[x].status = "released" /\ credited[x] = 1
    /\ res[y].status = "pending"
    /\ ledger[res[y].productId] =
         [available |-> InitStock - res[y].quantity,
          reserved |-> res[y].quantity, total |-> InitStock]
    /\ ledger[res[x].productId] =
         [available |-> InitStock, reserved |-> 0, total |-> InitStock]
====
